---- MODULE Spec2Model ----
(***************************************************************************)
(* A model of ematools: the cached HTTP retrieval layer (helper.py), the   *)
(* paginated register crawl and detail-page parsing (parse.py) and the     *)
(* memoized table builders (data.py).                                      *)
(***************************************************************************)
EXTENDS Integers, Sequences, FiniteSets, TLC

(***************************************************************************)
(* Bounds of the model.                                                    *)
(***************************************************************************)
\* largest max_retries a direct caller of cached_get passes
MaxRetries == 2
\* largest reading of the wall clock (datetime.now())
MaxClock == 2

(***************************************************************************)
(* Program constants.                                                      *)
(***************************************************************************)
\* helper.py:124, parse.py:29: the only status that counts as success
HTTP_OK == 200
\* helper.py:86: max_retries when the caller passes none
DEFAULT_MAX_RETRIES == 3

NoFile == "NoFile"

(***************************************************************************)
(* URLs.                                                                   *)
(***************************************************************************)
\* f"{idx:03d}" for 0 <= idx < 1000
Pad3(idx) ==
    IF idx < 10 THEN "00" \o ToString(idx)
    ELSE IF idx < 100 THEN "0" \o ToString(idx)
    ELSE ToString(idx)

\* a numbering of the pages that starts one too high
PageUrl_FromTwo(page) == "reg_hum_act" \o ToString(page + 1) \o ".htm"

\* parse.py:24-26: the URL of listing page `page`
PageUrl(page) ==
    IF page = 1 THEN "reg_hum_act.htm"
    ELSE "reg_hum_act" \o ToString(page) \o ".htm"

\* parse.py:66-71: the URL of the detail page of product idx, pre = "h"
MedicinePageUrl(idx) ==
    "h" \o (IF idx < 1000 THEN Pad3(idx) ELSE ToString(idx)) \o ".htm"

\* helper.py:109: the cache file of a URL (its name is a function of the URL)
cache_file(u) == u \o ".html"

(***************************************************************************)
(* The network: what one requests.get(url) can do.                         *)
(***************************************************************************)
\* statuses a server answers with
StatusCodes == {HTTP_OK, 404, 503}

\* classes of the exceptions requests.get raises, all RequestException
TransportExceptions == {"ConnectionError", "Timeout"}

\* the class hierarchy of requests.exceptions
IsInstance(cls, K) ==
    \/ cls = K
    \/ K = "RequestException" /\ cls \in TransportExceptions

(***************************************************************************)
(* Page bodies.  A body is named by a string; the embedded JSON arrays the *)
(* parsers look for are read off the body by the operators further down.   *)
(***************************************************************************)
\* the register has at most MaxPage listing pages that carry entries
MaxPage == 2

\* ids of the products the register lists
ProductIds == {1, 2}

\* bodies of listing pages: without a dataSet array, or with one
ListingTexts == {"L_none", "L_1", "L_2"}

\* bodies of detail pages: without a product-information array, or that of
\* product 1 or of product 2
DetailTexts == {"D_none", "D_1", "D_2"}

ListingUrls == {PageUrl(p) : p \in 1..(MaxPage + 1)}
DetailUrls == {MedicinePageUrl(i) : i \in ProductIds}
Urls == ListingUrls \cup DetailUrls

\* what the server can send under a URL with status 200; past the last
\* listing page there are no more entries
Bodies(u) ==
    IF u \in DetailUrls THEN DetailTexts
    ELSE IF u = PageUrl(MaxPage + 1) THEN {"L_none"}
    ELSE ListingTexts

\* the outcomes of one requests.get(u): a response, or an exception raised
NetResponses(u) ==
    [kind : {"response"}, status_code : {HTTP_OK}, content : Bodies(u),
     cls : {""}]
    \cup [kind : {"response"}, status_code : StatusCodes \ {HTTP_OK},
          content : {"error page"}, cls : {""}]
NetExceptions ==
    [kind : {"exception"}, status_code : {0}, content : {""},
     cls : TransportExceptions]

(***************************************************************************)
(* State.                                                                  *)
(***************************************************************************)
VARIABLES
    \* durable state of the request cache (helper.py:105-110)
    cache,        \* cache file name -> bytes, or NoFile
    log,          \* rows of request_log.parquet; <<>> when the file is absent
    clock,        \* last reading of datetime.now()
    \* the running cached_get call
    pc,           \* "idle", "loop", "returned", "raised"
    caller,       \* who called cached_get
    url, force, max_retries,
    attempt,      \* the loop variable of helper.py:121
    response,     \* the response cached_get returns
    exc,          \* the exception cached_get raises
    log_branch,   \* the branch of helper.py:138-148 the call took
    \* observations
    trace,        \* the outcome of each network request of this call: "ok",
                  \* "status" (not 200) or the class of the exception raised
    fetched       \* url -> timestamp and status of its last successful request

fetch_vars == <<cache, log, clock, pc, caller, url, force, max_retries,
                attempt, response, exc, log_branch, trace, fetched>>

\* the snapshot store and the running memoized call
VARIABLES
    snap,         \* snapshot key -> whether the parquet file exists, its table
    op,           \* the memoized function the user called
    snap0,        \* the snapshot store as it was when the user called it
    stack,        \* the memoized functions being executed, innermost last
    ppc,          \* "idle", "wrapper", "crawl", "crawl_wait", "enrich",
                  \* "enrich_wait", "schema", "schema_wait", "procs",
                  \* "procs_wait", "returned", "raised"
    page, all_data,        \* locals of parse_main_register
    df, idx, results,      \* medicines_register: table, row at work, structs
    value,        \* the table returned to the user
    error,        \* the exception raised to the user
    last_ret      \* snapshot key -> the table the last completed call returned

\* the running procedures() call
VARIABLES
    df_main,      \* the table of data.py:97
    schema,       \* the field names of the struct of data.py:99-101
    lists,        \* what map_elements got for the rows of df_main so far
    calls         \* the ids parse_procedures_rows was called with, in order

proc_vars == <<df_main, schema, lists, calls>>

memo_vars == <<snap, op, snap0, stack, ppc, page, all_data, df, idx, results,
               value, error, last_ret, proc_vars>>

\* a parser applied to an input of its own
VARIABLES
    arg,          \* the parser and its input
    ret           \* what the parser returned or raised

parse_vars == <<arg, ret>>

\* threads that write the request log at the same time
VARIABLES
    threads,      \* thread -> its place in cached_get and its locals
    log_lock      \* the threads that hold _log_lock: none, or one

thread_vars == <<threads, log_lock>>

\* everything but the request layer
pipe_vars == <<memo_vars, parse_vars, thread_vars>>

NoCall == [fn |-> ""]

NoResponse == [status_code |-> 0, content |-> "", url |-> ""]
NoException == [cls |-> "", msg |-> ""]
NeverFetched == [timestamp |-> -1, status_code |-> 0]

(***************************************************************************)
(* cached_get (helper.py:82-161).                                          *)
(***************************************************************************)
\* the frame of cached_get is gone once its caller has taken the result
FrameGone ==
    /\ pc' = "idle" /\ caller' = ""
    /\ url' = "" /\ force' = FALSE /\ max_retries' = 0 /\ attempt' = 0
    /\ response' = NoResponse /\ exc' = NoException
    /\ log_branch' = "none" /\ trace' = <<>>

\* a cached_get that never looks into the cache
CacheHit_Never(u, f) == FALSE

\* helper.py:113: the cache is used when not forced and the file exists
CacheHit(u, f) == ~f /\ cache[cache_file(u)] # NoFile

\* helper.py:114-118: the response built from the cache file
CachedResponse(u) ==
    [status_code |-> HTTP_OK, content |-> cache[cache_file(u)], url |-> u]

\* any response counts as a success
IsSuccess_AnyStatus(r) == r.kind = "response"

\* helper.py:124: an attempt succeeds only with status 200
IsSuccess(r) == r.kind = "response" /\ r.status_code = HTTP_OK

\* one iteration short: range(max_retries - 1)
InRange_OneShort(a, mr) == a < mr - 1

\* helper.py:121: the loop body runs for attempt in range(max_retries)
InRange(a, mr) == a < mr

\* helper.py:153: what the except clause catches
IsRequestException(cls) == IsInstance(cls, "RequestException")

\* compares with max_retries, which the loop variable never reaches
IsLastAttempt_OffByOne(a, mr) == a = mr

\* helper.py:154: the last iteration of range(max_retries)
IsLastAttempt(a, mr) == a = mr - 1

\* helper.py:128-135: the row written for a successful request
new_entry(u, now, status) ==
    [filename |-> cache_file(u), url |-> u, timestamp |-> now,
     status_code |-> status]

\* a concat without the filter
FilterUrl_Keep(rows, u) == rows

\* log_df.filter(pl.col("url") != url)
FilterUrl(rows, u) == SelectSeq(rows, LAMBDA r : r.url # u)

\* a log rewritten from the new row alone
UpdatedLog_Rewrite(rows, entry, read_ok) == <<entry>>

\* helper.py:138-148: the log that is written back; read_ok says whether
\* pl.read_parquet succeeded on an existing file
UpdatedLog(rows, entry, read_ok) ==
    IF rows # <<>>
    THEN IF read_ok THEN FilterUrl(rows, entry.url) \o <<entry>>
         ELSE <<entry>>
    ELSE <<entry>>

LogBranch(rows, read_ok) ==
    IF rows # <<>> THEN (IF read_ok THEN "read" ELSE "unreadable") ELSE "absent"

\* a file name that does not depend on the URL
WriteCache_AnyFile(c, u, bytes) == [n \in DOMAIN c |-> bytes]

\* helper.py:125: the cache after the payload is written
WriteCache(c, u, bytes) == [c EXCEPT ![cache_file(u)] = bytes]

\* helper.py:105-121: entry into cached_get, up to the first loop test
cached_get(u, f, mr, who) ==
    /\ url' = u /\ force' = f /\ max_retries' = mr /\ caller' = who
    /\ attempt' = 0 /\ trace' = <<>> /\ exc' = NoException
    /\ log_branch' = "none"
    /\ IF CacheHit(u, f)
       THEN response' = CachedResponse(u) /\ pc' = "returned"
       ELSE response' = NoResponse /\ pc' = "loop"
    /\ UNCHANGED <<cache, log, clock, fetched>>

\* helper.py:123-151: an attempt answered with status 200
AttemptSuccess ==
    /\ pc = "loop" /\ InRange(attempt, max_retries)
    /\ \E r \in NetResponses(url), now \in clock..MaxClock, read_ok \in BOOLEAN :
        /\ IsSuccess(r)
        /\ cache' = WriteCache(cache, url, r.content)
        /\ log' = UpdatedLog(log, new_entry(url, now, r.status_code), read_ok)
        /\ log_branch' = LogBranch(log, read_ok)
        /\ clock' = now
        /\ fetched' = [fetched EXCEPT ![url] =
                          [timestamp |-> now, status_code |-> r.status_code]]
        /\ response' = [status_code |-> r.status_code, content |-> r.content,
                        url |-> url]
        /\ trace' = Append(trace, "ok")
        /\ pc' = "returned"
    /\ UNCHANGED <<caller, url, force, max_retries, attempt, exc>>
    /\ UNCHANGED pipe_vars

\* an attempt answered with another status whose body is written to the
\* cache file all the same
AttemptBadStatus_Cached ==
    /\ pc = "loop" /\ InRange(attempt, max_retries)
    /\ \E r \in NetResponses(url) :
        /\ ~IsSuccess(r)
        /\ cache' = WriteCache(cache, url, r.content)
        /\ trace' = Append(trace, "status")
    /\ attempt' = attempt + 1
    /\ UNCHANGED <<log, clock, pc, caller, url, force, max_retries,
                   response, exc, log_branch, fetched>>
    /\ UNCHANGED pipe_vars

\* helper.py:123-124, 121: an attempt answered with another status
AttemptBadStatus ==
    /\ pc = "loop" /\ InRange(attempt, max_retries)
    /\ \E r \in NetResponses(url) :
        /\ ~IsSuccess(r)
        /\ trace' = Append(trace, "status")
    /\ attempt' = attempt + 1
    /\ UNCHANGED <<cache, log, clock, pc, caller, url, force, max_retries,
                   response, exc, log_branch, fetched>>
    /\ UNCHANGED pipe_vars

\* helper.py:153-157: an attempt on which requests.get raised
AttemptException ==
    /\ pc = "loop" /\ InRange(attempt, max_retries)
    /\ \E e \in NetExceptions :
        /\ IsRequestException(e.cls)
        /\ trace' = Append(trace, e.cls)
        /\ IF IsLastAttempt(attempt, max_retries)
           THEN /\ exc' = [cls |-> e.cls, msg |-> "transport"]
                /\ pc' = "raised"
                /\ attempt' = attempt
           ELSE /\ exc' = exc
                /\ pc' = pc
                /\ attempt' = attempt + 1
    /\ UNCHANGED <<cache, log, clock, caller, url, force, max_retries,
                   response, log_branch, fetched>>
    /\ UNCHANGED pipe_vars

\* helper.py:159-161: the loop ended without a return
ExhaustedError == [cls |-> "RequestException", msg |-> "Failed to fetch"]

\* the error of the first attempt that raised, kept until the loop ends
RaiseExhausted_FirstError ==
    /\ pc = "loop" /\ ~InRange(attempt, max_retries)
    /\ LET raisedAt == {k \in 1..Len(trace) : trace[k] \in TransportExceptions}
       IN  exc' = IF raisedAt = {} THEN ExhaustedError
                  ELSE [cls |-> trace[CHOOSE k \in raisedAt :
                                          \A j \in raisedAt : k <= j],
                        msg |-> "transport"]
    /\ pc' = "raised"
    /\ UNCHANGED <<cache, log, clock, caller, url, force, max_retries,
                   attempt, response, log_branch, trace, fetched>>
    /\ UNCHANGED pipe_vars

RaiseExhausted ==
    /\ pc = "loop" /\ ~InRange(attempt, max_retries)
    /\ exc' = ExhaustedError
    /\ pc' = "raised"
    /\ UNCHANGED <<cache, log, clock, caller, url, force, max_retries,
                   attempt, response, log_branch, trace, fetched>>
    /\ UNCHANGED pipe_vars

(***************************************************************************)
(* The embedded JSON arrays of the page bodies.                            *)
(***************************************************************************)
EuNumber(i) == "EU/1/00/" \o Pad3(i)
Name(i) == "name" \o ToString(i)
Inn(i) == "inn" \o ToString(i)

\* an entry of a listing page's dataSet array; the indication is a sequence
\* of text and markup tokens
Item(i) ==
    [eu_num |-> [display |-> EuNumber(i), pre |-> "h", id |-> ToString(i)],
     name |-> Name(i), inn |-> Inn(i),
     indication |-> <<" ", "treats", "<br/>", "x", "<u>">>,
     company |-> "company" \o ToString(i)]

\* an entry of a detail page's dataSet_product_information array
Field(t, v) == [type |-> t, value |-> v, meta |-> <<>>]
Meta(t, m) == [type |-> t, value |-> "", meta |-> m]

ProductInformationOf(i) ==
    << Field("eu_num", EuNumber(i)),
       Field("name", Name(i)),
       Field("inn", Inn(i)),
       Field("indication", "detail indication"),
       Field("mah", "holder" \o ToString(i)),
       Meta("atc", << << [level |-> "3", code |-> "A01"],
                         [level |-> "5", code |-> "A01AA0" \o ToString(i)] >>,
                      << [level |-> "5", code |-> "B02BB0" \o ToString(i)] >> >>),
       Meta("ema_links", << [url |-> "ema/a"], [url |-> "ema/b"] >>),
       Meta("orphan_links", << [url |-> "orphan"] >>),
       Field("future_tag", "?") >>

\* parse.py:33, 38: re.search(r"var dataSet = (\[.*?\]);") and json.loads
DataSet(text) ==
    CASE text = "L_1" -> [found |-> TRUE, data |-> <<Item(1)>>]
      [] text = "L_2" -> [found |-> TRUE, data |-> <<Item(2)>>]
      [] OTHER -> [found |-> FALSE, data |-> <<>>]

\* an entry of a detail page's dataSet_proc array.  A date is the sequence
\* of its digit groups and dashes; a key the page leaves out is not in the
\* record.
ProcOf(i) ==
    IF i = 1
    THEN << [id |-> "C101", closed |-> "2019-01-01", type |-> "authorisation",
             ema_number |-> "EMEA/1", decision |-> [number |-> "(2019)1"],
             files_dec |-> << [code |-> "en"] >>] >>
    ELSE << [id |-> "C123", closed |-> "2020-03-20", type |-> "variation",
             ema_number |-> "EMEA/2",
             decision |-> [number |-> "(2020)2",
                           date |-> <<"2020", "-", "03", "-", "15">>],
             files_dec |-> << [code |-> "de"], [code |-> "en"] >>,
             files_anx |-> << [code |-> "fr"] >>],
            [id |-> "C124", type |-> "renewal",
             decision |-> [number |-> "(2021)3",
                           date |-> <<"2021", "-", "11", "-", "02">>],
             files_anx |-> << [code |-> "en"] >>] >>

\* parse.py:131, 135: re.search(r"var dataSet_proc = (\[.*?\]);") and
\* json.loads
DataSetProc(text) ==
    CASE text = "D_1" -> [found |-> TRUE, data |-> ProcOf(1)]
      [] text = "D_2" -> [found |-> TRUE, data |-> ProcOf(2)]
      [] OTHER -> [found |-> FALSE, data |-> <<>>]

\* parse.py:82, 86: re.search(r"var dataSet_product_information = ...")
ProductInformation(text) ==
    CASE text = "D_1" -> [found |-> TRUE, data |-> ProductInformationOf(1)]
      [] text = "D_2" -> [found |-> TRUE, data |-> ProductInformationOf(2)]
      [] OTHER -> [found |-> FALSE, data |-> <<>>]

(***************************************************************************)
(* parse.py: the rows of the register and the fields of a detail page.     *)
(***************************************************************************)
MarkupTokens == {"<br/>", "<br>", "<u>", "</u>", "â€¢ "}

RECURSIVE Strip(_)
Strip(toks) ==
    IF toks = <<>> THEN toks
    ELSE IF Head(toks) = " " THEN Strip(Tail(toks))
    ELSE IF toks[Len(toks)] = " " THEN Strip(SubSeq(toks, 1, Len(toks) - 1))
    ELSE toks

\* parse.py:52-58: markup replaced by spaces, then stripped
NormalizeIndication(toks) ==
    Strip([k \in 1..Len(toks) |->
              IF toks[k] \in MarkupTokens THEN " " ELSE toks[k]])

\* .cast({"id": pl.Int64}) on the decimal string of an id
CastInt64(str) == CHOOSE n \in 0..999 : ToString(n) = str

\* parse.py:45-61, 63: the row of one listing entry
FlattenItem(item) ==
    [eu_number |-> item.eu_num.display,
     pre |-> item.eu_num.pre,
     id |-> CastInt64(item.eu_num.id),
     name |-> item.name,
     inn |-> item.inn,
     indication |-> NormalizeIndication(item.indication),
     company |-> item.company]

\* parse.py:43-63
FlattenAll(items) == [k \in 1..Len(items) |-> FlattenItem(items[k])]

RECURSIVE Join(_, _)
Join(strs, sep) ==
    IF strs = <<>> THEN ""
    ELSE IF Len(strs) = 1 THEN strs[1]
    ELSE strs[1] \o sep \o Join(Tail(strs), sep)

RECURSIVE Concat(_)
Concat(seqs) == IF seqs = <<>> THEN <<>> ELSE Head(seqs) \o Concat(Tail(seqs))

\* the codes of every level
AtcCodes_AllLevels(meta) ==
    LET flat == Concat(meta) IN [k \in 1..Len(flat) |-> flat[k].code]

\* parse.py:95-99: the level-5 codes of the nested atc metadata
AtcCodes(meta) ==
    LET flat == Concat(meta)
        fives == SelectSeq(flat, LAMBDA d : d.level = "5")
    IN  [k \in 1..Len(fives) |-> fives[k].code]

\* d[key] = v on a dict
Put(d, key, v) ==
    [k \in (DOMAIN d) \cup {key} |-> IF k = key THEN v ELSE d[k]]

\* a pop that leaves the dict as it is
Pop_Keep(d, key) == d

\* d.pop(key)
Pop(d, key) == [k \in (DOMAIN d) \ {key} |-> d[k]]

EmptyDict == [k \in {} |-> ""]

\* every entry is stored under its tag
CleanItem_StoreAll(d, item) == Put(d, item.type, item.value)

\* parse.py:89-107: one entry of the product-information array
CleanItem(d, item) ==
    CASE item.type = "eu_num" -> Put(d, "eu_number", item.value)
      [] item.type \in {"name", "inn", "indication", "mah"} ->
            Put(d, item.type, item.value)
      [] item.type = "atc" -> Put(d, "atc", Join(AtcCodes(item.meta), ";"))
      [] item.type = "ema_links" ->
            Put(d, "ema_links",
                Join([k \in 1..Len(item.meta) |-> item.meta[k].url], ";"))
      [] item.type = "orphan_links" -> d
      [] OTHER -> d

RECURSIVE CleanAll(_, _)
CleanAll(d, items) ==
    IF items = <<>> THEN d ELSE CleanAll(CleanItem(d, Head(items)), Tail(items))

\* parse.py:83-108, on what the search found
TopFields(m) == IF ~m.found THEN EmptyDict ELSE CleanAll(EmptyDict, m.data)

\* parse.py:82-108, on the text medicine_page returned
parse_medicine_page_top(html) == TopFields(ProductInformation(html))

\* a loop that leaves inn out
CheckedTypes_NoInn == <<"name", "eu_number">>

\* parse.py:115
CheckedTypes == <<"name", "eu_number", "inn">>

RECURSIVE CheckTypes(_, _, _)
\* parse.py:115-119: the loop over the compared fields
CheckTypes(row, data, types) ==
    IF types = <<>> THEN [ok |-> TRUE, data |-> data]
    ELSE LET t == Head(types)
         IN  IF t \notin DOMAIN data THEN CheckTypes(row, data, Tail(types))
             ELSE IF row[t] = data[t]
                  THEN CheckTypes(row, Pop(data, t), Tail(types))
                  ELSE [ok |-> FALSE, data |-> Pop(data, t)]

\* parse.py:113-120, on the fields of the detail page; ok is FALSE when
\* the assert fails
MainTable(row, data) ==
    LET d1 == IF "indication" \in DOMAIN data THEN Pop(data, "indication")
              ELSE data
    IN  CheckTypes(row, d1, CheckedTypes)

\* parse.py:111-120, on the text medicine_page returned
medicine_maintable(row, html) == MainTable(row, parse_medicine_page_top(html))

Null == "null"

\* data.py:67-73: the struct map_elements builds from the returned dict
ResultStruct(d) ==
    [k \in {"mah", "atc", "ema_links"} |->
        IF k \in DOMAIN d THEN d[k] ELSE Null]

\* data.py:63-76: a row with the unnested result columns
Unnest(row, st) ==
    [k \in (DOMAIN row) \cup (DOMAIN st) |->
        IF k \in DOMAIN st THEN st[k] ELSE row[k]]

(***************************************************************************)
(* parse.py: the procedures of a detail page.                              *)
(***************************************************************************)
\* parse.py:136
base_url == "https://ec.europa.eu/health/documents/community-register"

\* rec.get(key, dflt)
Get(rec, key, dflt) == IF key \in DOMAIN rec THEN rec[key] ELSE dflt

RECURSIVE SplitFirst(_)
\* parse.py:151: dec_date.split("-")[0]
SplitFirst(date) ==
    IF date = <<>> THEN ""
    ELSE IF Head(date) = "-" THEN ""
    ELSE Head(date) \o SplitFirst(Tail(date))

RECURSIVE RemoveDashes(_)
\* parse.py:152: dec_date.replace("-", "")
RemoveDashes(date) ==
    IF date = <<>> THEN ""
    ELSE (IF Head(date) = "-" THEN "" ELSE Head(date))
            \o RemoveDashes(Tail(date))

\* looks at the first listed file only
AnyEn_First(files) == files # <<>> /\ files[1].code = "en"

\* parse.py:158, 160: any(f["code"] == "en" for f in files)
AnyEn(files) == \E k \in 1..Len(files) : files[k].code = "en"

\* parse.py:151-153
UrlPath(dec_date, proc_id) ==
    base_url \o "/" \o SplitFirst(dec_date) \o "/"
        \o RemoveDashes(dec_date) \o proc_id

\* parse.py:140-164: the row of one record; a date that is missing, null or
\* empty is <<>>
ProcRow(rec) ==
    LET proc_id == rec.id
        decision == Get(rec, "decision", EmptyDict)
        row == [close_date |-> Get(rec, "closed", Null),
                procedure_type |-> Get(rec, "type", Null),
                ema_number |-> Get(rec, "ema_number", Null),
                decision_number |-> Get(decision, "number", Null)]
        dec_date == Get(decision, "date", <<>>)
        url_path == UrlPath(dec_date, proc_id)
        files_dec == Get(rec, "files_dec", <<>>)
        files_anx == Get(rec, "files_anx", <<>>)
        with_dec == IF dec_date # <<>> /\ AnyEn(files_dec)
                    THEN Put(row, "decisions_en",
                             url_path \o "/dec_" \o proc_id \o "_en.pdf")
                    ELSE row
        anx == url_path \o "/anx_" \o proc_id \o "_en.pdf"
    IN  IF dec_date # <<>> /\ AnyEn(files_anx)
        THEN Put(Put(with_dec, "annexes_en", anx), "summary_en", anx)
        ELSE with_dec

\* the columns pl.DataFrame(rows) infers from a list of dicts: every key
\* of a row
Columns(rows) == UNION {DOMAIN rows[k] : k \in 1..Len(rows)}

\* parse.py:166: pl.DataFrame(rows); a row has null where it lacks a key
DataFrame(rows) ==
    [k \in 1..Len(rows) |-> [c \in Columns(rows) |-> Get(rows[k], c, Null)]]

\* parse.py:132-166, on what the search found; a frame without rows is <<>>
ProcFrame(m) ==
    IF ~m.found THEN <<>>
    ELSE DataFrame([k \in 1..Len(m.data) |-> ProcRow(m.data[k])])

\* parse.py:130-166, on the text medicine_page returned
parse_procedures(html) == ProcFrame(DataSetProc(html))

\* parse.py:169-171
parse_procedures_rows(html) ==
    LET frame == parse_procedures(html)
    IN  IF Len(frame) > 0 THEN frame ELSE <<>>

\* data.py:99-101: the fields of the struct, from the first row of the
\* representative call
SchemaOf(rows) == DOMAIN rows[1]

\* a dict a struct of the schema has no field for some key of
HasExtra(fields, rows) == \E k \in 1..Len(rows) : DOMAIN rows[k] \ fields # {}

\* data.py:114: the struct of the schema map_elements builds from a dict
ToStruct(fields, row) == [c \in fields |-> Get(row, c, Null)]

\* data.py:117-118: explode and unnest on one row of df_main; an empty
\* list explodes to one row of nulls
ExplodeRow(row, list, fields) ==
    IF list = <<>> THEN << Unnest(row, [c \in fields |-> Null]) >>
    ELSE [k \in 1..Len(list) |-> Unnest(row, list[k])]

\* data.py:111-119
ExplodeAll(table, structs, fields) ==
    Concat([k \in 1..Len(table) |->
               ExplodeRow(table[k], structs[k], fields)])

(***************************************************************************)
(* Memoized calls (helper.py:26-79, data.py, parse.py:15-63).              *)
(***************************************************************************)
SnapKeys == {"parse_main_register", "medicines_register", "procedures"}

\* helper.py:63-64: the store before any function has written to it
NoSnapshots == [k \in SnapKeys |-> [exists |-> FALSE, table |-> <<>>]]

\* one explicit key shared by every decorated function
cache_key_Shared(fn) == "medicines_register"

\* helper.py:66: cache_key is None for every decorated function
cache_key(fn) == fn

\* a wrapper that never finds the snapshot
SnapshotExists_Never(fn) == FALSE

\* helper.py:69
SnapshotExists(fn) == snap[cache_key(fn)].exists

\* a wrapper that reads the file of another function
read_parquet_OtherFile(fn) == snap["parse_main_register"].table

\* helper.py:71
read_parquet(fn) == snap[cache_key(fn)].table

\* a wrapper that returns the table without writing the file
write_parquet_Skip(s, fn, table) == s

\* helper.py:74
write_parquet(s, fn, table) ==
    [s EXCEPT ![cache_key(fn)] = [exists |-> TRUE, table |-> table]]

Top == stack[Len(stack)]

\* the innermost function returns table to its caller: the user,
\* medicines_register at data.py:62 or procedures at data.py:97
ReturnTable(table) ==
    /\ stack' = SubSeq(stack, 1, Len(stack) - 1)
    /\ IF Len(stack) = 1
       THEN /\ value' = table /\ ppc' = "returned"
            /\ UNCHANGED <<df, idx, results, page, all_data>>
            /\ UNCHANGED <<df_main, schema, lists>>
       ELSE IF stack[Len(stack) - 1] = "medicines_register"
       THEN /\ df' = table /\ idx' = 1 /\ results' = <<>> /\ ppc' = "enrich"
            /\ page' = 0 /\ all_data' = <<>>
            /\ UNCHANGED value
            /\ UNCHANGED <<df_main, schema, lists>>
       ELSE /\ df_main' = table /\ schema' = {} /\ lists' = <<>>
            /\ ppc' = "schema"
            /\ df' = <<>> /\ idx' = 0 /\ results' = <<>>
            /\ page' = 0 /\ all_data' = <<>>
            /\ UNCHANGED value
    /\ UNCHANGED calls

\* the memoized functions that build the register
RegisterKeys == {"parse_main_register", "medicines_register"}

\* the user calls a memoized function of the register
CallMemoized ==
    /\ ppc = "idle" /\ pc = "idle"
    /\ \E fn \in RegisterKeys :
        /\ op' = fn /\ stack' = <<fn>>
    /\ snap0' = snap
    /\ ppc' = "wrapper"
    /\ value' = <<>> /\ error' = NoException
    /\ UNCHANGED <<snap, page, all_data, df, idx, results, last_ret>>
    /\ UNCHANGED proc_vars
    /\ UNCHANGED fetch_vars
    /\ UNCHANGED <<parse_vars, thread_vars>>

\* the user calls procedures()
CallProcedures ==
    /\ ppc = "idle" /\ pc = "idle"
    /\ op' = "procedures" /\ stack' = <<"procedures">>
    /\ snap0' = snap
    /\ ppc' = "wrapper"
    /\ value' = <<>> /\ error' = NoException
    /\ UNCHANGED <<snap, page, all_data, df, idx, results, last_ret>>
    /\ UNCHANGED proc_vars
    /\ UNCHANGED fetch_vars
    /\ UNCHANGED <<parse_vars, thread_vars>>

\* helper.py:69-71: the snapshot exists and is returned
WrapperHit ==
    /\ ppc = "wrapper"
    /\ SnapshotExists(Top)
    /\ ReturnTable(read_parquet(Top))
    /\ UNCHANGED <<snap, op, snap0, error, last_ret>>
    /\ UNCHANGED fetch_vars
    /\ UNCHANGED <<parse_vars, thread_vars>>

\* every function body starts from the listing table
Callee_Listing(fn) == "parse_main_register"

\* the memoized function a function body calls first (data.py:62, 97)
Callee(fn) ==
    IF fn = "procedures" THEN "medicines_register" ELSE "parse_main_register"

\* helper.py:73: no snapshot, the function body starts
\* (parse.py:19-20, data.py:62, data.py:97)
WrapperMiss ==
    /\ ppc = "wrapper"
    /\ ~SnapshotExists(Top)
    /\ IF Top = "parse_main_register"
       THEN /\ page' = 1 /\ all_data' = <<>> /\ ppc' = "crawl"
            /\ UNCHANGED stack
       ELSE /\ stack' = Append(stack, Callee(Top))
            /\ ppc' = "wrapper"
            /\ UNCHANGED <<page, all_data>>
    /\ UNCHANGED <<snap, op, snap0, df, idx, results, value, error, last_ret>>
    /\ UNCHANGED proc_vars
    /\ UNCHANGED fetch_vars
    /\ UNCHANGED <<parse_vars, thread_vars>>

\* parse.py:24-27
CrawlFetch ==
    /\ ppc = "crawl" /\ pc = "idle"
    /\ cached_get(PageUrl(page), FALSE, DEFAULT_MAX_RETRIES, "crawl")
    /\ ppc' = "crawl_wait"
    /\ UNCHANGED <<snap, op, snap0, stack, page, all_data, df, idx, results,
                   value, error, last_ret>>
    /\ UNCHANGED proc_vars
    /\ UNCHANGED <<parse_vars, thread_vars>>

\* parse.py:29-40 on the response; at a break parse.py:42-63, then the
\* wrapper persists and returns the table (helper.py:74-75).  Without
\* entries pl.DataFrame([]) has no columns, and .cast({"id": pl.Int64})
\* then depends on the polars at hand: it raises ColumnNotFoundError where
\* the name is resolved against the frame, and gives the empty frame where
\* a name the frame lacks is passed over.
CrawlPage ==
    /\ ppc = "crawl_wait" /\ pc = "returned"
    /\ FrameGone
    /\ LET m == DataSet(response.content)
       IN  IF response.status_code # HTTP_OK \/ ~m.found
           THEN \/ /\ snap' = write_parquet(snap, Top, FlattenAll(all_data))
                   /\ ReturnTable(FlattenAll(all_data))
                   /\ UNCHANGED error
                \/ /\ all_data = <<>>
                   /\ error' = [cls |-> "ColumnNotFoundError", msg |-> "id"]
                   /\ ppc' = "raised"
                   /\ stack' = <<>>
                   /\ UNCHANGED <<snap, page, all_data, df, idx, results,
                                  value>>
                   /\ UNCHANGED proc_vars
           ELSE /\ all_data' = all_data \o m.data
                /\ page' = page + 1
                /\ ppc' = "crawl"
                /\ UNCHANGED <<snap, stack, df, idx, results, value, error>>
                /\ UNCHANGED proc_vars
    /\ UNCHANGED <<op, snap0, last_ret>>
    /\ UNCHANGED <<cache, log, clock, fetched>>
    /\ UNCHANGED <<parse_vars, thread_vars>>

\* data.py:63-66, parse.py:112, 80, 66-72: the detail page of the next row
EnrichFetch ==
    /\ ppc = "enrich" /\ pc = "idle"
    /\ idx <= Len(df)
    /\ cached_get(MedicinePageUrl(df[idx].id), FALSE, DEFAULT_MAX_RETRIES,
                  "enrich")
    /\ ppc' = "enrich_wait"
    /\ UNCHANGED <<snap, op, snap0, stack, page, all_data, df, idx, results,
                   value, error, last_ret>>
    /\ UNCHANGED proc_vars
    /\ UNCHANGED <<parse_vars, thread_vars>>

\* parse.py:112-120 on the response; a failed assert ends the call
EnrichRow ==
    /\ ppc = "enrich_wait" /\ pc = "returned"
    /\ FrameGone
    /\ LET r == medicine_maintable(df[idx], response.content)
       IN  IF r.ok
           THEN /\ results' = Append(results, ResultStruct(r.data))
                /\ idx' = idx + 1
                /\ ppc' = "enrich"
                /\ UNCHANGED <<stack, error>>
           ELSE /\ error' = [cls |-> "AssertionError", msg |-> "mismatch"]
                /\ ppc' = "raised"
                /\ stack' = <<>>
                /\ UNCHANGED <<results, idx>>
    /\ UNCHANGED <<snap, op, snap0, page, all_data, df, value, last_ret>>
    /\ UNCHANGED proc_vars
    /\ UNCHANGED <<cache, log, clock, fetched>>
    /\ UNCHANGED <<parse_vars, thread_vars>>

\* data.py:76-77, then helper.py:74-75
EnrichDone ==
    /\ ppc = "enrich" /\ pc = "idle"
    /\ idx > Len(df)
    /\ LET table == [k \in 1..Len(df) |-> Unnest(df[k], results[k])]
       IN  /\ snap' = write_parquet(snap, Top, table)
           /\ ReturnTable(table)
    /\ UNCHANGED <<op, snap0, error, last_ret>>
    /\ UNCHANGED fetch_vars
    /\ UNCHANGED <<parse_vars, thread_vars>>

\* data.py:99-100, parse.py:170, 130: the representative call
\* parse_procedures_rows(1) asks for the detail page of product 1
SchemaFetch ==
    /\ ppc = "schema" /\ pc = "idle"
    /\ cached_get(MedicinePageUrl(1), FALSE, DEFAULT_MAX_RETRIES, "schema")
    /\ calls' = Append(calls, 1)
    /\ ppc' = "schema_wait"
    /\ UNCHANGED <<snap, op, snap0, stack, page, all_data, df, idx, results,
                   value, error, last_ret>>
    /\ UNCHANGED <<df_main, schema, lists>>
    /\ UNCHANGED <<parse_vars, thread_vars>>

\* data.py:99-101 on the rows of the representative call; [0] on an empty
\* list raises IndexError
SchemaInfer ==
    /\ ppc = "schema_wait" /\ pc = "returned"
    /\ FrameGone
    /\ LET rows == parse_procedures_rows(response.content)
       IN  IF rows = <<>>
           THEN /\ error' = [cls |-> "IndexError", msg |-> "list index"]
                /\ ppc' = "raised"
                /\ stack' = <<>>
                /\ UNCHANGED schema
           ELSE /\ schema' = SchemaOf(rows)
                /\ ppc' = "procs"
                /\ UNCHANGED <<stack, error>>
    /\ UNCHANGED <<snap, op, snap0, page, all_data, df, idx, results, value,
                   last_ret>>
    /\ UNCHANGED <<df_main, lists, calls>>
    /\ UNCHANGED <<cache, log, clock, fetched>>
    /\ UNCHANGED <<parse_vars, thread_vars>>

\* data.py:113-114, parse.py:170, 130: map_elements calls
\* parse_procedures_rows on the id of the next row of df_main
ProcFetch ==
    /\ ppc = "procs" /\ pc = "idle"
    /\ Len(lists) < Len(df_main)
    /\ LET id == df_main[Len(lists) + 1].id
       IN  /\ cached_get(MedicinePageUrl(id), FALSE, DEFAULT_MAX_RETRIES,
                         "procs")
           /\ calls' = Append(calls, id)
    /\ ppc' = "procs_wait"
    /\ UNCHANGED <<snap, op, snap0, stack, page, all_data, df, idx, results,
                   value, error, last_ret>>
    /\ UNCHANGED <<df_main, schema, lists>>
    /\ UNCHANGED <<parse_vars, thread_vars>>

\* data.py:114 on the rows the call returned: they become structs of the
\* schema.  What polars does with a dict that has a key the struct has no
\* field for depends on its version: the key is dropped, or the conversion
\* raises.
ProcRows ==
    /\ ppc = "procs_wait" /\ pc = "returned"
    /\ FrameGone
    /\ LET rows == parse_procedures_rows(response.content)
       IN  \/ /\ lists' = Append(lists, [k \in 1..Len(rows) |->
                                            ToStruct(schema, rows[k])])
              /\ ppc' = "procs"
              /\ UNCHANGED <<stack, error>>
           \/ /\ HasExtra(schema, rows)
              /\ error' = [cls |-> "SchemaError", msg |-> "extra field"]
              /\ ppc' = "raised"
              /\ stack' = <<>>
              /\ UNCHANGED lists
    /\ UNCHANGED <<snap, op, snap0, page, all_data, df, idx, results, value,
                   last_ret>>
    /\ UNCHANGED <<df_main, schema, calls>>
    /\ UNCHANGED <<cache, log, clock, fetched>>
    /\ UNCHANGED <<parse_vars, thread_vars>>

\* data.py:117-128, then helper.py:74-75
ProcDone ==
    /\ ppc = "procs" /\ pc = "idle"
    /\ Len(lists) = Len(df_main)
    /\ LET table == ExplodeAll(df_main, lists, schema)
       IN  /\ snap' = write_parquet(snap, Top, table)
           /\ ReturnTable(table)
    /\ UNCHANGED <<op, snap0, error, last_ret>>
    /\ UNCHANGED fetch_vars
    /\ UNCHANGED <<parse_vars, thread_vars>>

\* an exception of cached_get passes through every frame to the user
Propagate ==
    /\ ppc \in {"crawl_wait", "enrich_wait", "schema_wait", "procs_wait"}
    /\ pc = "raised"
    /\ error' = exc
    /\ ppc' = "raised"
    /\ stack' = <<>>
    /\ UNCHANGED <<snap, op, snap0, page, all_data, df, idx, results, value,
                   last_ret>>
    /\ UNCHANGED proc_vars
    /\ UNCHANGED fetch_vars
    /\ UNCHANGED <<parse_vars, thread_vars>>

\* the user takes the table or the exception
Finish ==
    /\ ppc \in {"returned", "raised"}
    /\ ppc' = "idle"
    /\ last_ret' = IF ppc = "returned"
                   THEN [last_ret EXCEPT ![op] = [valid |-> TRUE, table |-> value]]
                   ELSE last_ret
    /\ op' = "" /\ stack' = <<>>
    /\ snap0' = NoSnapshots
    /\ page' = 0 /\ all_data' = <<>>
    /\ df' = <<>> /\ idx' = 0 /\ results' = <<>>
    /\ value' = <<>> /\ error' = NoException
    /\ df_main' = <<>> /\ schema' = {} /\ lists' = <<>> /\ calls' = <<>>
    /\ FrameGone
    /\ UNCHANGED <<snap, cache, log, clock, fetched>>
    /\ UNCHANGED <<parse_vars, thread_vars>>

(***************************************************************************)
(* Direct calls of cached_get, as cached_pdf and library users make them.  *)
(***************************************************************************)
\* the URLs direct callers ask for
FetchUrls == {PageUrl(1), MedicinePageUrl(1)}

UserFetch ==
    /\ pc = "idle" /\ ppc = "idle"
    /\ \E u \in FetchUrls, f \in BOOLEAN, mr \in 0..MaxRetries :
        cached_get(u, f, mr, "user")
    /\ UNCHANGED pipe_vars

\* the caller takes the response or the exception
UserDone ==
    /\ pc \in {"returned", "raised"} /\ caller = "user"
    /\ FrameGone
    /\ UNCHANGED <<cache, log, clock, fetched>>
    /\ UNCHANGED pipe_vars

\* the listing page a user refreshes in the cache
RefreshUrls == {PageUrl(1)}

\* cached_get(url, force=True) between two memoized calls
UserRefresh ==
    /\ pc = "idle" /\ ppc = "idle"
    /\ \E u \in RefreshUrls : cached_get(u, TRUE, DEFAULT_MAX_RETRIES, "user")
    /\ UNCHANGED pipe_vars

(***************************************************************************)
(* The parsers of parse.py, each applied to an input of its own.           *)
(***************************************************************************)
\* the longest product-information array a detail page is given
MaxItems == 3

\* nested atc metadata: a list of lists of levels
AtcMeta(n) ==
    CASE n = 1 -> << << [level |-> "3", code |-> "A01"],
                        [level |-> "5", code |-> "A01AA01"] >>,
                     << [level |-> "5", code |-> "B02BB02"] >> >>
      [] n = 2 -> << << [level |-> "5", code |-> "C03CA02"],
                        [level |-> "4", code |-> "C03C"],
                        [level |-> "5", code |-> "C03CA01"] >> >>
      [] OTHER -> << << [level |-> "4", code |-> "D04A"] >>, << >> >>

\* the entries a product-information array is made of
ItemChoices == 1..15

ItemChoice(n) ==
    CASE n = 1 -> Field("eu_num", EuNumber(1))
      [] n = 2 -> Field("eu_num", EuNumber(2))
      [] n = 3 -> Field("name", Name(1))
      [] n = 4 -> Field("name", Name(2))
      [] n = 5 -> Field("inn", Inn(1))
      [] n = 6 -> Field("inn", Inn(2))
      [] n = 7 -> Field("indication", "detail indication")
      [] n = 8 -> Field("mah", "holder")
      [] n = 9 -> Meta("atc", AtcMeta(1))
      [] n = 10 -> Meta("atc", AtcMeta(2))
      [] n = 11 -> Meta("atc", AtcMeta(3))
      [] n = 12 -> Meta("ema_links", << [url |-> "ema/a"], [url |-> "ema/b"] >>)
      [] n = 13 -> Meta("orphan_links", << [url |-> "orphan"] >>)
      [] n = 14 -> Field("future_tag", "?")
      [] OTHER -> Field("pharm_class", "new")

\* a detail page: whether it holds a product-information array, and the
\* entries of the array
DetailPages ==
    {[found |-> FALSE, codes |-> <<>>]}
        \cup {[found |-> TRUE, codes |-> c] :
                 c \in UNION {[1..n -> ItemChoices] : n \in 0..MaxItems}}

\* parse.py:82, 86 on such a page
Found(p) ==
    [found |-> p.found,
     data |-> [k \in 1..Len(p.codes) |-> ItemChoice(p.codes[k])]]

TopInputs == {[fn |-> "parse_medicine_page_top", page |-> p] : p \in DetailPages}

MergeInputs ==
    {[fn |-> "medicine_maintable", row |-> FlattenItem(Item(i)), page |-> p] :
        i \in ProductIds, p \in DetailPages}

\* the longest procedure array a detail page is given
MaxRecs == 2

\* what a procedure record says of its decision, and of its decision or
\* annex files
DateChoices == {"no decision", "empty date", "2020-03-15"}
FileChoices == {"no key", "de", "de, en"}

RecChoices ==
    [id : {"C123", "C7"}, date : DateChoices, dec : FileChoices,
     anx : FileChoices]

\* the files of a choice
Files(c) ==
    CASE c = "de" -> << [code |-> "de"] >>
      [] c = "de, en" -> << [code |-> "de"], [code |-> "en"] >>
      [] OTHER -> << >>

\* the date of a choice, in digit groups and dashes
DateTokens(c) ==
    IF c = "2020-03-15" THEN <<"2020", "-", "03", "-", "15">> ELSE << >>

\* the record of a choice, as json.loads gives it
Rec(c) ==
    LET keys == {"id", "closed", "type"}
                    \cup (IF c.date = "no decision" THEN {} ELSE {"decision"})
                    \cup (IF c.dec = "no key" THEN {} ELSE {"files_dec"})
                    \cup (IF c.anx = "no key" THEN {} ELSE {"files_anx"})
    IN  [k \in keys |->
            CASE k = "id" -> c.id
              [] k = "closed" -> "2020-03-20"
              [] k = "type" -> "variation"
              [] k = "decision" ->
                    [number |-> "(2020)2", date |-> DateTokens(c.date)]
              [] k = "files_dec" -> Files(c.dec)
              [] OTHER -> Files(c.anx)]

\* a detail page: whether it holds a procedure array, and its records
ProcPages ==
    {[found |-> FALSE, recs |-> <<>>]}
        \cup {[found |-> TRUE, recs |-> r] :
                 r \in UNION {[1..n -> RecChoices] : n \in 0..MaxRecs}}

\* parse.py:131, 135 on such a page
FoundProc(p) ==
    [found |-> p.found, data |-> [k \in 1..Len(p.recs) |-> Rec(p.recs[k])]]

ProcInputs == {[fn |-> "parse_procedures", page |-> p] : p \in ProcPages}

\* parse_procedures on the input
ApplyProcedures ==
    /\ arg.fn = "parse_procedures" /\ ret.fn = ""
    /\ ret' = [fn |-> arg.fn, kind |-> "returned",
               value |-> ProcFrame(FoundProc(arg.page))]
    /\ UNCHANGED <<arg, fetch_vars, memo_vars, thread_vars>>

\* the longest string value of a listing array
MaxChars == 3

\* characters: of [\x00-\x1f], of [\x7f-\x9f], and others
C0Controls == {"<x01>"}
C1Controls == {"<x7f>"}
StringChars == {"a", "]", ";"} \cup C0Controls \cup C1Controls

\* the string values of the array
Strings == UNION {[1..n -> StringChars] : n \in 0..MaxChars}

\* listing arrays: no value, one, or one followed by "b"
Blobs == {<<>>} \cup {<<v>> : v \in Strings} \cup {<<v, <<"b">>>> : v \in Strings}

RECURSIVE Serialize(_)
\* the text of the values, quoted and separated by commas
Serialize(strs) ==
    IF strs = <<>> THEN <<>>
    ELSE <<"\"">> \o Head(strs) \o <<"\"">>
            \o (IF Len(strs) = 1 THEN <<>> ELSE <<",", "<x0a>">>)
            \o Serialize(Tail(strs))

\* the text of a listing page that embeds the array
ListingText(strs) ==
    <<"<script>", "var dataSet = ", "[">> \o Serialize(strs)
        \o <<"]", ";", "<x0a>", "var other = ", "[", "]", ";">>

\* parse.py:33: re.search(r"var dataSet = (\[.*?\]);", text, re.DOTALL):
\* from the first "var dataSet = [" to the nearest "]" that a ";" follows
SearchDataSet(text) ==
    LET Ends(i) == {k \in (i + 2)..(Len(text) - 1) :
                       text[k] = "]" /\ text[k + 1] = ";"}
        starts == {i \in 1..(Len(text) - 1) :
                      /\ text[i] = "var dataSet = " /\ text[i + 1] = "["
                      /\ Ends(i) # {}}
    IN  IF starts = {} THEN [found |-> FALSE, group |-> <<>>]
        ELSE LET i == CHOOSE a \in starts : \A b \in starts : a <= b
                 k == CHOOSE a \in Ends(i) : \A b \in Ends(i) : a <= b
             IN  [found |-> TRUE, group |-> SubSeq(text, i + 1, k)]

\* parse.py:10-12: re.sub(r"[\x00-\x1f\x7f-\x9f]", " ", json)
clean_json(chars) ==
    [k \in 1..Len(chars) |->
        IF chars[k] \in C0Controls \cup {"<x0a>"} \cup C1Controls THEN " "
        ELSE chars[k]]

JSONDecodeError == [ok |-> FALSE, data |-> <<>>]

RECURSIVE Loads(_, _, _, _)
\* json.loads on an array of strings: st is what the decoder expects, cur
\* the string it is in, acc the values it has
Loads(chars, st, cur, acc) ==
    IF chars = <<>> THEN (IF st = "end" THEN [ok |-> TRUE, data |-> acc]
                          ELSE JSONDecodeError)
    ELSE LET c == Head(chars)
             rest == Tail(chars)
         IN  IF st = "string"
             THEN IF c = "\"" THEN Loads(rest, "comma", <<>>, Append(acc, cur))
                  ELSE IF c \in C0Controls \cup {"<x0a>"} THEN JSONDecodeError
                  ELSE Loads(rest, "string", Append(cur, c), acc)
             ELSE IF c \in {" ", "<x0a>"} THEN Loads(rest, st, cur, acc)
             ELSE IF st = "array"
             THEN IF c = "[" THEN Loads(rest, "first", cur, acc)
                  ELSE JSONDecodeError
             ELSE IF st \in {"first", "value"} /\ c = "\""
             THEN Loads(rest, "string", <<>>, acc)
             ELSE IF st \in {"first", "comma"} /\ c = "]"
             THEN Loads(rest, "end", cur, acc)
             ELSE IF st = "comma" /\ c = ","
             THEN Loads(rest, "value", cur, acc)
             ELSE JSONDecodeError

\* json.loads(text)
json_loads(chars) == Loads(chars, "array", <<>>, <<>>)

CrawlInputs == {[fn |-> "parse_main_register", strs |-> b] : b \in Blobs}

\* parse.py:33-38 on the text of a listing page
ApplyCrawlPage ==
    /\ arg.fn = "parse_main_register" /\ ret.fn = ""
    /\ LET match == SearchDataSet(ListingText(arg.strs))
           data == json_loads(clean_json(match.group))
       IN  ret' = IF ~match.found THEN [fn |-> arg.fn, kind |-> "break"]
                  ELSE IF data.ok
                  THEN [fn |-> arg.fn, kind |-> "returned", value |-> data.data]
                  ELSE [fn |-> arg.fn, kind |-> "raised",
                        cls |-> "JSONDecodeError"]
    /\ UNCHANGED <<arg, fetch_vars, memo_vars, thread_vars>>

\* parse_medicine_page_top on the input
ApplyTopFields ==
    /\ arg.fn = "parse_medicine_page_top" /\ ret.fn = ""
    /\ ret' = [fn |-> arg.fn, kind |-> "returned",
               value |-> TopFields(Found(arg.page))]
    /\ UNCHANGED <<arg, fetch_vars, memo_vars, thread_vars>>

\* medicine_maintable on the input
ApplyMainTable ==
    /\ arg.fn = "medicine_maintable" /\ ret.fn = ""
    /\ LET r == MainTable(arg.row, TopFields(Found(arg.page)))
       IN  ret' = IF r.ok
                  THEN [fn |-> arg.fn, kind |-> "returned", value |-> r.data]
                  ELSE [fn |-> arg.fn, kind |-> "raised",
                        cls |-> "AssertionError"]
    /\ UNCHANGED <<arg, fetch_vars, memo_vars, thread_vars>>

(***************************************************************************)
(* Threads of one process in cached_get at the same time, each one on a    *)
(* request that is answered with status 200 (helper.py:123-151).           *)
(***************************************************************************)
\* how many threads there are
NumThreads == 2

Threads == 1..NumThreads

NoEntry == new_entry("", -1, 0)

\* a thread that has not called cached_get yet
NotStarted ==
    [pc |-> "start", url |-> "", content |-> "", new_entry |-> NoEntry,
     log_df |-> <<>>, branch |-> "none"]

\* a lock that is never held
CanAcquire_Always(holders) == TRUE

\* helper.py:23, 137: threading.Lock
CanAcquire(holders) == holders = {}

\* the variables of the single call and of the memoized calls, which the
\* threads leave alone
single_vars == <<pc, caller, url, force, max_retries, attempt, response, exc,
                 log_branch, trace, fetched, memo_vars, parse_vars>>

\* helper.py:113, 123-124: the cache is not used and requests.get answers
\* with status 200
ThreadGet ==
    /\ \E t \in Threads, u \in FetchUrls, f \in BOOLEAN :
        /\ threads[t].pc = "start"
        /\ ~CacheHit(u, f)
        /\ \E r \in NetResponses(u) :
            /\ IsSuccess(r)
            /\ threads' = [threads EXCEPT ![t].pc = "got", ![t].url = u,
                                          ![t].content = r.content]
    /\ UNCHANGED <<cache, log, clock, log_lock, single_vars>>

\* helper.py:125
ThreadWriteCache ==
    /\ \E t \in Threads :
        /\ threads[t].pc = "got"
        /\ cache' = WriteCache(cache, threads[t].url, threads[t].content)
        /\ threads' = [threads EXCEPT ![t].pc = "cached"]
    /\ UNCHANGED <<log, clock, log_lock, single_vars>>

\* helper.py:128-135: the row, with the time of this moment
ThreadNewEntry ==
    /\ \E t \in Threads, now \in clock..MaxClock :
        /\ threads[t].pc = "cached"
        /\ clock' = now
        /\ threads' = [threads EXCEPT
                          ![t].pc = "entry",
                          ![t].new_entry = new_entry(threads[t].url, now,
                                                     HTTP_OK)]
    /\ UNCHANGED <<cache, log, log_lock, single_vars>>

\* helper.py:137: with _log_lock, entered
ThreadAcquire ==
    /\ \E t \in Threads :
        /\ threads[t].pc = "entry"
        /\ CanAcquire(log_lock)
        /\ log_lock' = log_lock \cup {t}
        /\ threads' = [threads EXCEPT ![t].pc = "locked"]
    /\ UNCHANGED <<cache, log, clock, single_vars>>

\* helper.py:138-148: log_df, from the file as it is now
ThreadReadLog ==
    /\ \E t \in Threads, read_ok \in BOOLEAN :
        /\ threads[t].pc = "locked"
        /\ threads' = [threads EXCEPT
                          ![t].pc = "read",
                          ![t].branch = LogBranch(log, read_ok),
                          ![t].log_df = UpdatedLog(log, threads[t].new_entry,
                                                   read_ok)]
    /\ UNCHANGED <<cache, log, clock, log_lock, single_vars>>

\* helper.py:149
ThreadWriteLog ==
    /\ \E t \in Threads :
        /\ threads[t].pc = "read"
        /\ log' = threads[t].log_df
        /\ threads' = [threads EXCEPT ![t].pc = "written", ![t].log_df = <<>>]
    /\ UNCHANGED <<cache, clock, log_lock, single_vars>>

\* helper.py:137, 151: with _log_lock, left; the response is returned
ThreadReturn ==
    /\ \E t \in Threads :
        /\ threads[t].pc = "written"
        /\ log_lock' = log_lock \ {t}
        /\ threads' = [threads EXCEPT ![t] = [NotStarted EXCEPT
                                                !.pc = "returned",
                                                !.url = threads[t].url,
                                                !.branch = threads[t].branch]]
    /\ UNCHANGED <<cache, log, clock, single_vars>>

vars == <<fetch_vars, pipe_vars>>

\* everything but the clock, as it is before the first call
Fresh ==
    /\ cache = [n \in {cache_file(u) : u \in Urls} |-> NoFile]
    /\ log = <<>>
    /\ pc = "idle" /\ caller = ""
    /\ url = "" /\ force = FALSE /\ max_retries = 0 /\ attempt = 0
    /\ response = NoResponse /\ exc = NoException
    /\ log_branch = "none"
    /\ trace = <<>>
    /\ fetched = [u \in Urls |-> NeverFetched]
    /\ snap = NoSnapshots
    /\ op = "" /\ snap0 = NoSnapshots /\ stack = <<>> /\ ppc = "idle"
    /\ page = 0 /\ all_data = <<>>
    /\ df = <<>> /\ idx = 0 /\ results = <<>>
    /\ value = <<>> /\ error = NoException
    /\ df_main = <<>> /\ schema = {} /\ lists = <<>> /\ calls = <<>>
    /\ last_ret = [k \in SnapKeys |-> [valid |-> FALSE, table |-> <<>>]]

\* no parser is applied on its own, no thread is started
Alone == arg = NoCall /\ ret = NoCall /\ threads = <<>> /\ log_lock = {}

Init == Fresh /\ Alone /\ clock = 0

Next ==
    \/ UserFetch
    \/ UserDone
    \/ AttemptSuccess
    \/ AttemptBadStatus
    \/ AttemptException
    \/ RaiseExhausted

Spec == Init /\ [][Next]_vars

\* the tables are built late in the day: every row of the log gets the
\* same timestamp
InitPipe == Fresh /\ Alone /\ clock = MaxClock

NextPipe ==
    \/ UserRefresh
    \/ UserDone
    \/ AttemptSuccess
    \/ AttemptBadStatus
    \/ AttemptException
    \/ RaiseExhausted
    \/ CallMemoized
    \/ WrapperHit
    \/ WrapperMiss
    \/ CrawlFetch
    \/ CrawlPage
    \/ EnrichFetch
    \/ EnrichRow
    \/ EnrichDone
    \/ Propagate
    \/ Finish

SpecPipe == InitPipe /\ [][NextPipe]_vars

\* the three memoized functions, called in any order on a cache that only
\* they fill
NextProc ==
    \/ CallMemoized
    \/ CallProcedures
    \/ AttemptSuccess
    \/ AttemptBadStatus
    \/ AttemptException
    \/ RaiseExhausted
    \/ WrapperHit
    \/ WrapperMiss
    \/ CrawlFetch
    \/ CrawlPage
    \/ EnrichFetch
    \/ EnrichRow
    \/ EnrichDone
    \/ SchemaFetch
    \/ SchemaInfer
    \/ ProcFetch
    \/ ProcRows
    \/ ProcDone
    \/ Propagate
    \/ Finish

SpecProc == InitPipe /\ [][NextProc]_vars

\* a parser and an input for it
InitParse ==
    /\ Fresh /\ clock = 0
    /\ threads = <<>> /\ log_lock = {}
    /\ ret = NoCall
    /\ \/ arg \in TopInputs
       \/ arg \in MergeInputs
       \/ arg \in ProcInputs
       \/ arg \in CrawlInputs

NextParse ==
    \/ ApplyTopFields
    \/ ApplyMainTable
    \/ ApplyProcedures
    \/ ApplyCrawlPage

SpecParse == InitParse /\ [][NextParse]_vars

\* the threads of a process that starts with an empty cache directory
InitThreads ==
    /\ Fresh /\ clock = 0
    /\ arg = NoCall /\ ret = NoCall
    /\ threads = [t \in Threads |-> NotStarted]
    /\ log_lock = {}

NextThreads ==
    \/ ThreadGet
    \/ ThreadWriteCache
    \/ ThreadNewEntry
    \/ ThreadAcquire
    \/ ThreadReadLog
    \/ ThreadWriteLog
    \/ ThreadReturn

SpecThreads == InitThreads /\ [][NextThreads]_vars

(***************************************************************************)
(* Properties of cached_get, checked under Spec.                           *)
(***************************************************************************)
Last(seq) == seq[Len(seq)]

\* every request of the running call was answered with a status other than 200
AllBadStatus == trace # <<>> /\ \A k \in 1..Len(trace) : trace[k] = "status"

\* a cached_get call starts in this step
CallStarts == pc = "idle" /\ pc' # "idle"

\* C2: a call with force = FALSE for a URL whose cache file exists returns
\* the cached bytes with status 200, makes no network request and leaves the
\* cache and the log alone, whatever max_retries is.
C2_CacheHit ==
    [][(CallStarts /\ ~force' /\ cache[cache_file(url')] # NoFile)
        => /\ pc' = "returned"
           /\ response' = [status_code |-> HTTP_OK,
                           content |-> cache[cache_file(url')], url |-> url']
           /\ trace' = <<>>
           /\ cache' = cache /\ log' = log]_vars

C2_Witness ==
    /\ pc = "returned" /\ caller = "user" /\ ~force /\ max_retries = 0
    /\ trace = <<>> /\ response.content = "L_1"

C3_State ==
    /\ pc # "idle" => Len(trace) <= max_retries
    /\ pc \in {"loop", "raised"} => \A k \in 1..Len(trace) : trace[k] # "ok"
    /\ (pc = "returned" /\ trace # <<>>) =>
          /\ Last(trace) = "ok"
          /\ \A k \in 1..(Len(trace) - 1) : trace[k] # "ok"
          /\ response.status_code = HTTP_OK
          /\ cache[cache_file(url)] = response.content
          /\ \E k \in 1..Len(log) : log[k].url = url

\* C3: a call that goes to the network makes at most max_retries requests,
\* returns at the first one answered with status 200, with the cache file
\* holding the returned bytes and the log a row for the URL, and makes no
\* request after that one.
C3_FetchSuccess ==
    /\ []C3_State
    /\ [][pc = "returned" => Len(trace') <= Len(trace)]_vars

C3_Witness ==
    /\ pc = "returned" /\ force /\ max_retries = 2
    /\ trace = <<"status", "ok">>

C5_TransportFailure ==
    [][(pc = "loop" /\ trace' # trace /\ Last(trace') \in TransportExceptions)
        => IF attempt = max_retries - 1
           THEN /\ pc' = "raised"
                /\ exc'.cls = Last(trace')
                /\ exc'.msg # "Failed to fetch"
           ELSE /\ pc' = "loop"
                /\ exc' = NoException
                /\ attempt' = attempt + 1
                /\ attempt' < max_retries]_vars

C5_Witness ==
    /\ pc = "raised" /\ max_retries = 2
    /\ trace = <<"Timeout", "ConnectionError">>
    /\ exc.cls = "ConnectionError"

\* the rows of the log for URL u
RowsOf(rows, u) == SelectSeq(rows, LAMBDA r : r.url = u)

LogUrls(rows) == {rows[k].url : k \in 1..Len(rows)}

\* a request of the running call is answered with status 200 in this step
Succeeds == pc = "loop" /\ pc' = "returned"

C6_State ==
    \A u \in Urls :
        /\ Len(RowsOf(log, u)) <= 1
        /\ \A k \in 1..Len(RowsOf(log, u)) :
              /\ RowsOf(log, u)[k].timestamp = fetched[u].timestamp
              /\ RowsOf(log, u)[k].status_code = fetched[u].status_code
              /\ RowsOf(log, u)[k].filename = cache_file(u)

C8_Immutable ==
    [][\A n \in DOMAIN cache :
        cache[n] # NoFile => cache'[n] = cache[n]]_vars

\* C8, amended: a cache file that exists is never removed, and it changes
\* only when a call with force = TRUE for its URL gets status 200, to the
\* bytes of that response.
C8_ChangedOnlyByForce ==
    [][\A n \in DOMAIN cache :
        cache[n] # NoFile =>
            /\ cache'[n] # NoFile
            /\ cache'[n] # cache[n] =>
                  /\ force /\ n = cache_file(url) /\ Succeeds
                  /\ cache'[n] = response'.content]_vars

C8_Witness ==
    /\ pc = "returned" /\ force /\ trace # <<>>
    /\ log_branch = "read" /\ Len(log) = 1
    /\ fetched[MedicinePageUrl(1)] = NeverFetched
    /\ cache[cache_file(url)] = "L_2"

(***************************************************************************)
(* Properties of the memoized calls, checked under SpecPipe.               *)
(***************************************************************************)
\* C1: when a listing page is answered with a status other than 200 on
\* every attempt, parse_main_register ends normally and returns the rows of
\* the entries of the pages before it, in page order.
C1_PaginationTermination ==
    (/\ op = "parse_main_register" /\ ppc \in {"returned", "raised"}
     /\ caller = "crawl" /\ url = PageUrl(page) /\ AllBadStatus)
        => /\ ppc = "returned"
           /\ value = FlattenAll(all_data)

\* C9: once medicines_register has returned a table, a later call makes no
\* network request, does not fail and returns that same table, whatever
\* has become of the request cache in between.
C9_ProductsIdempotent ==
    /\ [][(op = "medicines_register" /\ last_ret["medicines_register"].valid)
            => Len(trace') <= Len(trace)]_vars
    /\ []((op = "medicines_register" /\ last_ret["medicines_register"].valid)
            => /\ ppc # "raised"
               /\ ppc = "returned" =>
                     value = last_ret["medicines_register"].table)

C9_Witness ==
    /\ op = "medicines_register" /\ ppc = "returned"
    /\ last_ret["medicines_register"].valid
    /\ Len(value) = 1 /\ value[1].id = 1 /\ value[1].mah = "holder1"
    /\ cache[cache_file(PageUrl(1))] = "L_2"

\* C10: a snapshot that exists is never written again, and a memoized call
\* that finds its snapshot hands the stored table to its caller without
\* starting the function body.
C10_SnapshotAuthority ==
    /\ [][\A k \in SnapKeys : snap[k].exists => snap'[k] = snap[k]]_vars
    /\ [][(ppc = "wrapper" /\ snap[Top].exists
            /\ <<ppc, stack>>' # <<ppc, stack>>)
           => /\ stack' = SubSeq(stack, 1, Len(stack) - 1)
              /\ IF Len(stack) = 1
                 THEN ppc' = "returned" /\ value' = snap[Top].table
                 ELSE ppc' = "enrich" /\ df' = snap[Top].table]_vars

C10_Witness ==
    /\ op = "medicines_register" /\ ppc = "returned"
    /\ last_ret["medicines_register"].valid
    /\ value = snap["medicines_register"].table
    /\ Len(value) = 2
    /\ cache[cache_file(PageUrl(1))] = "L_none"

(***************************************************************************)
(* Properties of the three memoized functions, checked under SpecProc.     *)
(***************************************************************************)
\* the failed assert of parse.py:119
ConsistencyViolation == error.cls = "AssertionError"

\* what cached_get raises after its last attempt
FetchFailure == IsInstance(error.cls, "RequestException")

RECURSIVE Callees(_)
\* the memoized functions that run inside a call of fn
Callees(fn) ==
    IF fn = "parse_main_register" THEN {}
    ELSE {Callee(fn)} \cup Callees(Callee(fn))

\* C11: when a call of a memoized function fails with a consistency
\* violation or a fetch failure, the snapshot store is what it was when the
\* call began: the run has persisted no snapshot and changed none.
C11_NoSnapshotPersisted ==
    (ppc = "raised" /\ (ConsistencyViolation \/ FetchFailure))
        => snap = snap0

\* C11, amended: a failure of cached_get or of the assert goes to the user
\* without a snapshot being written on the way; when a call has failed, the
\* snapshot of the function called does not exist, every snapshot that
\* existed when the call began is unchanged, and the snapshots the run has
\* persisted are those of memoized functions that ran to completion inside
\* the call.
C11_FailedRun ==
    /\ [](ppc = "raised" =>
            /\ error # NoException /\ stack = <<>>
            /\ ~snap[op].exists
            /\ \A k \in SnapKeys :
                  snap[k] # snap0[k] =>
                      /\ k \in Callees(op)
                      /\ ~snap0[k].exists /\ snap[k].exists)
    /\ [][(pc = "raised" /\ caller # "user" /\ ppc # "raised" /\ ppc' # ppc)
            => ppc' = "raised" /\ error' = exc /\ snap' = snap]_vars
    /\ [][(/\ ppc = "enrich_wait" /\ pc = "returned" /\ ppc' # ppc
           /\ ~medicine_maintable(df[idx], response.content).ok)
            => /\ ppc' = "raised" /\ error'.cls = "AssertionError"
               /\ snap' = snap]_vars

C11_Witness ==
    /\ op = "procedures" /\ ppc = "raised"
    /\ error.cls \in TransportExceptions
    /\ snap0["parse_main_register"].exists
    /\ ~snap0["medicines_register"].exists
    /\ snap["medicines_register"].exists
    /\ snap["parse_main_register"] = snap0["parse_main_register"]

(***************************************************************************)
(* Properties of the parsers, checked under SpecParse.                     *)
(***************************************************************************)
\* the fields of the detail page of the input
DetailFields == TopFields(Found(arg.page))

\* the compared fields the detail page reports with another value than the
\* listing record has
Differing ==
    {f \in {"name", "eu_number", "inn"} :
        f \in DOMAIN DetailFields /\ DetailFields[f] # arg.row[f]}

\* C12: medicine_maintable raises the failed assert exactly when the detail
\* page reports name, eu_number or inn with a value other than that of the
\* listing record; it then returns nothing, and what it returns otherwise
\* holds none of the three fields.  A field the page does not report never
\* makes it fail.
C12_ConsistencyEnforced ==
    (arg.fn = "medicine_maintable" /\ ret.fn = arg.fn) =>
        /\ ret.kind = "raised" <=> Differing # {}
        /\ ret.kind = "raised" =>
              ret.cls = "AssertionError" /\ "value" \notin DOMAIN ret
        /\ ret.kind = "returned" =>
              DOMAIN ret.value \cap {"name", "eu_number", "inn"} = {}

C12_Witness ==
    /\ arg.fn = "medicine_maintable" /\ ret.fn = arg.fn
    /\ ret.kind = "raised"
    /\ Differing = {"inn"}
    /\ DOMAIN DetailFields = {"name", "inn", "mah"}
    /\ DetailFields["name"] = arg.row["name"]

\* a column of a row that holds a value
Present(row, c) == c \in DOMAIN row /\ row[c] # Null

\* the link a procedure of that id and decision date gets for kind "dec" or
\* "anx"
ExpectedLink(id, date, kind) ==
    base_url \o "/" \o date[1] \o "/" \o date[1] \o date[3] \o date[5] \o id
        \o "/" \o kind \o "_" \o id \o "_en.pdf"

\* C13: in the frame parse_procedures returns, the row of a record has
\* decisions_en exactly when the record has a decision date and a decision
\* file with code en, and annexes_en and summary_en exactly when it has a
\* decision date and an annex file with code en; summary_en equals
\* annexes_en, and each link is
\* <base>/<year>/<date digits><id>/<dec|anx>_<id>_en.pdf.
C13_DocumentLinks ==
    (arg.fn = "parse_procedures" /\ ret.fn = arg.fn /\ arg.page.found) =>
        /\ Len(ret.value) = Len(arg.page.recs)
        /\ \A k \in 1..Len(arg.page.recs) :
            LET c == arg.page.recs[k]
                row == ret.value[k]
                dated == c.date = "2020-03-15"
                date == <<"2020", "-", "03", "-", "15">>
            IN  /\ Present(row, "decisions_en") <=> (dated /\ c.dec = "de, en")
                /\ Present(row, "annexes_en") <=> (dated /\ c.anx = "de, en")
                /\ Present(row, "summary_en") <=> (dated /\ c.anx = "de, en")
                /\ Present(row, "decisions_en") =>
                      row.decisions_en = ExpectedLink(c.id, date, "dec")
                /\ Present(row, "annexes_en") =>
                      /\ row.annexes_en = ExpectedLink(c.id, date, "anx")
                      /\ row.summary_en = row.annexes_en

C13_Witness ==
    /\ arg.fn = "parse_procedures" /\ ret.fn = arg.fn
    /\ Len(ret.value) = 2
    /\ arg.page.recs[1] =
          [id |-> "C123", date |-> "2020-03-15", dec |-> "de, en", anx |-> "de"]
    /\ ret.value[1].decisions_en =
          base_url \o "/2020/20200315C123/dec_C123_en.pdf"
    /\ ~Present(ret.value[1], "annexes_en")
    /\ ~Present(ret.value[1], "summary_en")
    /\ Present(ret.value[2], "summary_en")
    /\ ~Present(ret.value[2], "decisions_en")

\* the places of the atc entries in the array of the input
AtcPlaces == {k \in 1..Len(arg.page.codes) : arg.page.codes[k] \in {9, 10, 11}}

\* the level-5 codes of the atc entries ItemChoice offers, in the order the
\* page lists them, joined by ";"
ExpectedAtc(n) ==
    CASE n = 9 -> "A01AA01;B02BB02"
      [] n = 10 -> "C03CA02;C03CA01"
      [] OTHER -> ""

\* C14: the atc field parse_medicine_page_top returns is the ";"-joined
\* codes of the level-"5" entries of the atc entry of the array (of the last
\* one, when there are several), in the order of the page and without the
\* codes of other levels; without an atc entry there is no atc field.
C14_AtcExtraction ==
    (arg.fn = "parse_medicine_page_top" /\ ret.fn = arg.fn) =>
        IF AtcPlaces = {}
        THEN "atc" \notin DOMAIN ret.value
        ELSE LET last == CHOOSE k \in AtcPlaces : \A j \in AtcPlaces : j <= k
             IN  /\ "atc" \in DOMAIN ret.value
                 /\ ret.value["atc"] = ExpectedAtc(arg.page.codes[last])

C14_Witness ==
    /\ arg.fn = "parse_medicine_page_top" /\ ret.fn = arg.fn
    /\ arg.page.codes = <<10, 8, 9>>
    /\ ret.value["atc"] = "A01AA01;B02BB02"
    /\ ret.value["mah"] = "holder"

\* the entries of ItemChoice whose tag is orphan_links or is not known
SkippedChoices == {13, 14, 15}

\* C15: parse_medicine_page_top returns for every array, raising nothing;
\* an entry tagged orphan_links or with a tag it does not know changes
\* nothing in the result, and the keys of the result are among eu_number,
\* name, inn, indication, mah, atc and ema_links.
C15_UnknownTagsSkipped ==
    (arg.fn = "parse_medicine_page_top" /\ ret.fn = arg.fn) =>
        LET kept == SelectSeq(arg.page.codes, LAMBDA n : n \notin SkippedChoices)
        IN  /\ ret.kind = "returned"
            /\ DOMAIN ret.value \subseteq
                  {"eu_number", "name", "inn", "indication", "mah", "atc",
                   "ema_links"}
            /\ ret.value = TopFields(Found([arg.page EXCEPT !.codes = kept]))

C15_Witness ==
    /\ arg.fn = "parse_medicine_page_top" /\ ret.fn = arg.fn
    /\ arg.page.codes = <<14, 3, 13>>
    /\ ret.kind = "returned"
    /\ DOMAIN ret.value = {"name"}

\* the string a value of the array becomes when each control character is
\* replaced by a space
Sanitized(str) ==
    [j \in 1..Len(str) |->
        IF str[j] \in C0Controls \cup C1Controls THEN " " ELSE str[j]]

\* C16: the array of a listing page whose string values hold raw control
\* characters is parsed, and the values come out with a space for each
\* control character and every other character as it was.
C16_Sanitization ==
    (arg.fn = "parse_main_register" /\ ret.fn = arg.fn) =>
        /\ ret.kind = "returned"
        /\ ret.value = [k \in 1..Len(arg.strs) |-> Sanitized(arg.strs[k])]

\* a reply with status 200 reaches the crawl and carries no dataSet array
NoListingArray ==
    /\ ppc = "crawl_wait" /\ pc = "returned" /\ ppc' # ppc
    /\ response.status_code = HTTP_OK /\ ~DataSet(response.content).found

\* C17: a listing page with status 200 and without a dataSet array ends the
\* crawl normally, with the rows of the entries of the pages before it and
\* without a request for another page; a detail page without a
\* product-information array gives medicine_maintable an empty mapping, and
\* one without a procedure array gives procedures an empty list of rows,
\* neither raising.
C17_MissingEmbeddedData ==
    /\ [][NoListingArray =>
            /\ ppc' \notin {"raised", "crawl", "crawl_wait"}
            /\ snap'["parse_main_register"] =
                  [exists |-> TRUE, table |-> FlattenAll(all_data)]]_vars
    /\ [][(/\ ppc = "enrich_wait" /\ pc = "returned" /\ ppc' # ppc
           /\ ~ProductInformation(response.content).found)
            => /\ ppc' = "enrich"
               /\ results' = Append(results, ResultStruct(EmptyDict))]_vars
    /\ [][(/\ ppc = "procs_wait" /\ pc = "returned" /\ ppc' # ppc
           /\ ~DataSetProc(response.content).found)
            => /\ ppc' = "procs"
               /\ lists' = Append(lists, <<>>)]_vars

\* the ids of the rows of a table, in row order
Ids(table) == [k \in 1..Len(table) |-> table[k].id]

\* the procedures snapshot is written in this step
ProceduresPersisted == snap'["procedures"] # snap["procedures"]

\* C18: when a call of procedures() persists its snapshot, it has called
\* parse_procedures_rows once for the id of every row of the products
\* table, in row order, and made no other such call.
C18_OncePerProduct ==
    [][ProceduresPersisted => calls = Ids(df_main)]_vars

\* C18, amended: parse_procedures_rows is called only once procedures() has
\* the products table, which is the medicines_register snapshot; the
\* snapshot of procedures() is written only after the representative call
\* for product 1, then one call for the id of every row of the table in
\* row order, have all returned, and it holds the exploded rows of their
\* results.
C18_MaterializationOrder ==
    /\ [][Len(calls') > Len(calls) =>
            /\ op = "procedures" /\ stack = <<"procedures">>
            /\ ppc \in {"schema", "procs"}
            /\ snap["medicines_register"] =
                  [exists |-> TRUE, table |-> df_main]]_vars
    /\ [][ProceduresPersisted =>
            /\ calls = <<1>> \o Ids(df_main)
            /\ ppc = "procs" /\ pc = "idle"
            /\ Len(lists) = Len(df_main)
            /\ snap'["procedures"] =
                  [exists |-> TRUE,
                   table |-> ExplodeAll(df_main, lists, schema)]]_vars

C18_Witness ==
    /\ op = "procedures" /\ ppc = "returned"
    /\ calls = <<1, 2, 1>>
    /\ Ids(df_main) = <<2, 1>>
    /\ snap["procedures"].exists
    /\ ~snap0["medicines_register"].exists
    /\ value = snap["procedures"].table

\* the columns a procedure may lack
OptionalColumns == {"decisions_en", "annexes_en", "summary_en"}

\* the rows parse_procedures_rows gives for the product of row k of df_main
\* on the detail page in the cache, each with its optional columns
FullRows(k) ==
    LET rows == parse_procedures_rows(
                    cache[cache_file(MedicinePageUrl(df_main[k].id))])
    IN  [j \in 1..Len(rows) |->
            [c \in OptionalColumns |-> Get(rows[j], c, Null)]]

\* the optional columns of the rows of the exploded table, in its order
FullTable ==
    Concat([k \in 1..Len(df_main) |->
               IF FullRows(k) = <<>>
               THEN << [c \in OptionalColumns |-> Null] >>
               ELSE FullRows(k)])

\* C19: a call of procedures() does not fail over a procedure that has
\* fields the representative record lacks; the table it builds has the same
\* columns in every row, and each row has in decisions_en, annexes_en and
\* summary_en what parse_procedures gave the procedure, null where it gave
\* nothing.
C19_UniformSchema ==
    /\ (op = "procedures" /\ ppc = "raised") => error.cls # "SchemaError"
    /\ (op = "procedures" /\ ppc = "returned" /\ calls # <<>>) =>
          /\ \A a, b \in 1..Len(value) : DOMAIN value[a] = DOMAIN value[b]
          /\ Len(value) = Len(FullTable)
          /\ \A a \in 1..Len(value), c \in OptionalColumns :
                Get(value[a], c, Null) = FullTable[a][c]

(***************************************************************************)
(* Concurrent fetches and the log.                                         *)
(***************************************************************************)
\* the threads between entering and leaving "with _log_lock"
InLogUpdate == {t \in Threads : threads[t].pc \in {"locked", "read", "written"}}

AllReturned == \A t \in Threads : threads[t].pc = "returned"

\* the thread that writes the log in this step
Writes(t) == threads[t].pc = "read" /\ threads'[t].pc = "written"

IndexedUrl(k) ==
    IF k = 1 THEN "reg_hum_act.htm"
    ELSE "reg_hum_act" \o ToString(k) \o ".htm"

InCrawl(p) == p \in {"crawl", "crawl_wait"}

\* parse_main_register calls cached_get in this step
AsksPage == ppc = "crawl" /\ ppc' = "crawl_wait"

\* C21: a crawl starts at page 1, asks for page `page` under the URL of
\* that index, moves on to page + 1 only in the step that takes a status
\* 200 response with an embedded array for page `page`, and apart from
\* that step never changes the index, so the indices asked for within one
\* crawl are 1, 2, 3, ... with none asked for twice.
C21_SequentialPages ==
    [][/\ (~InCrawl(ppc) /\ InCrawl(ppc')) => (ppc' = "crawl" /\ page' = 1)
       /\ AsksPage =>
            /\ page' = page /\ page >= 1
            /\ url' = IndexedUrl(page) /\ caller' = "crawl"
       /\ (ppc = "crawl_wait" /\ ppc' = "crawl") =>
            /\ page' = page + 1
            /\ url = IndexedUrl(page)
            /\ pc = "returned"
            /\ response.status_code = HTTP_OK
            /\ DataSet(response.content).found
       /\ (InCrawl(ppc) /\ InCrawl(ppc') /\ page' # page) =>
            (ppc = "crawl_wait" /\ ppc' = "crawl")
       /\ (ppc = "crawl" /\ ppc' # "crawl") => AsksPage]_vars

\* the crawl has asked for the page after the last one that carries
\* entries, having gone through every page before it
C21_Witness ==
    /\ ppc = "crawl_wait" /\ page = MaxPage + 1
    /\ url = IndexedUrl(MaxPage + 1)
    /\ Len(all_data) = MaxPage

\* the fields only the detail page has
DetailOnly == {"mah", "atc", "ema_links"}

\* C22: what medicine_maintable returns has none of the keys name,
\* eu_number, inn and indication: it is the detail page's fields cut down
\* to mah, atc and ema_links, each with the value the page gave it, and
\* the page's indication is never a reason for it to fail.
C22_OnlyDetailFields ==
    (arg.fn = "medicine_maintable" /\ ret.fn = arg.fn) =>
        /\ ret.kind = "returned" =>
              /\ DOMAIN ret.value = DOMAIN DetailFields \cap DetailOnly
              /\ DOMAIN ret.value
                    \cap {"name", "eu_number", "inn", "indication"} = {}
              /\ \A f \in DOMAIN ret.value : ret.value[f] = DetailFields[f]
        /\ Differing = {} => ret.kind = "returned"

\* a page with an indication in words of its own and with the listing's
\* name: the merge returns mah alone
C22_Witness ==
    /\ arg.fn = "medicine_maintable" /\ ret.fn = arg.fn
    /\ ret.kind = "returned"
    /\ DOMAIN DetailFields = {"name", "indication", "mah"}
    /\ DetailFields["indication"] = "detail indication"
    /\ DOMAIN ret.value = {"mah"}

(***************************************************************************)
(* What a call that fails, or that is served from the cache, leaves alone. *)
(***************************************************************************)
\* C23: the only step of cached_get that changes a cache file or the log
\* is the attempt answered with status 200, which ends the call with that
\* response and belongs to a call that was not served from the cache; a
\* call that raises has had no such attempt and a call served from the
\* cache has made no attempt at all, so both leave the cache and the log
\* as they were when the call started.
C23_FailedAndCachedCallsWriteNothing ==
    /\ [][(cache' # cache \/ log' # log) =>
            /\ pc = "loop" /\ pc' = "returned"
            /\ Last(trace') = "ok"
            /\ response'.status_code = HTTP_OK
            /\ force \/ cache[cache_file(url)] = NoFile]_vars
    /\ [](pc = "raised" => \A k \in 1..Len(trace) : trace[k] # "ok")
    /\ []((pc = "returned" /\ trace = <<>>) =>
            /\ ~force
            /\ cache[cache_file(url)] = response.content)
    /\ []((pc = "returned" /\ trace # <<>>) =>
            \A k \in 1..Len(trace) : trace[k] = "ok" <=> k = Len(trace))

\* a forced call has raised after its attempts, and the payload and the
\* log row an earlier call left for the URL are still there
C23_Witness ==
    /\ pc = "raised" /\ force /\ caller = "user"
    /\ Len(trace) = max_retries /\ max_retries > 1
    /\ cache[cache_file(url)] = "L_1"
    /\ Len(RowsOf(log, url)) = 1
    /\ RowsOf(log, url)[1].timestamp < clock

\* C24: the error a call raises is that of its last attempt: after a last
\* attempt answered with a status other than 200 it is the exhausted-retries
\* error, whatever was raised on earlier attempts, and after a last attempt
\* on which requests.get raised it is that very exception, whatever
\* statuses the earlier attempts were answered with.
C24_LastAttemptDecides ==
    (pc = "raised" /\ trace # <<>>) =>
        /\ Len(trace) = max_retries
        /\ Last(trace) = "status" => exc = ExhaustedError
        /\ Last(trace) \in TransportExceptions =>
              exc = [cls |-> Last(trace), msg |-> "transport"]
        /\ Last(trace) \in {"status"} \cup TransportExceptions

\* requests.get raised on the first attempt and was answered with a status
\* other than 200 on the last: the exhausted-retries error
C24_Witness ==
    /\ pc = "raised" /\ max_retries = MaxRetries
    /\ trace[1] \in TransportExceptions
    /\ Last(trace) = "status"
    /\ exc = ExhaustedError

(***************************************************************************)
(* The snapshots and the order they are written in.                        *)
(***************************************************************************)
\* C25: whatever calls were made on a store that was empty, and however
\* they ended, the snapshot of procedures exists only if that of
\* medicines_register does, and that one only if the snapshot of
\* parse_main_register does; the rows of the listing are enriched only
\* once the listing snapshot is written.
C25_SnapshotDependency ==
    /\ snap["procedures"].exists => snap["medicines_register"].exists
    /\ snap["medicines_register"].exists => snap["parse_main_register"].exists
    /\ ppc \in {"enrich", "enrich_wait"} => snap["parse_main_register"].exists

\* procedures() has failed on a detail page after medicines_register and
\* parse_main_register wrote their snapshots in the same run
C25_Witness ==
    /\ ppc = "raised" /\ op = "procedures"
    /\ ~snap0["parse_main_register"].exists
    /\ snap["medicines_register"].exists
    /\ snap["parse_main_register"].exists
    /\ ~snap["procedures"].exists

====
